---- MODULE Spec2Model ----
(***************************************************************************)
(* FamilyHub serverless handlers: the OAuth callback (api/callback.js),    *)
(* the calendar proxy with its token refresher (api/calendar.js), the      *)
(* OAuth redirector and the chat proxy (api/google.js), all working on one *)
(* shared Firestore document kv/gcal__tokens.                              *)
(*                                                                         *)
(* Every await of a handler is a scheduling point: an invocation is a      *)
(* record with a program counter, and one action runs the code between two *)
(* awaits.  The Firestore client and the HTTP transport of the store are   *)
(* taken as configured and reliable; the OAuth provider, the Calendar API  *)
(* and the chat provider answer nondeterministically (success, an error    *)
(* payload, or a transport failure that makes fetch reject).               *)
(***************************************************************************)
EXTENDS Integers, Sequences, FiniteSets, TLC

VARIABLES store, now, env, inv, runs, td

vars == <<store, now, env, inv, runs, td>>

----------------------------------------------------------------------------
(* Bounds of the model *)

\* at most MaxRuns invocations are started in one behaviour
MaxRuns == 3
\* the clock stops advancing at MaxNow milliseconds
MaxNow == 60000
\* the clock advances in steps of Tick milliseconds
Tick == 30000

(* Program constants *)

\* calendar.js:32, the 60 s safety buffer before expiry
Buffer == 60000
\* calendar.js:52 and callback.js:72, seconds to milliseconds
MsPerSec == 1000

----------------------------------------------------------------------------
(* Values *)

\* process.env entries the handlers read
ConfigKeys ==
  {"GOOGLE_CLIENT_ID", "GOOGLE_CLIENT_SECRET", "GOOGLE_REDIRECT_URI",
   "ANTHROPIC_API_KEY"}

AccessTokens == {"at1", "at2"}
\* "" stands for an undefined refresh_token (falsy in JS)
NoRefreshToken == ""
RefreshTokens == {"rt1"}
\* expires_in values (seconds) the provider may report
ExpiresIn == {30, 90}

\* the shape of doc.data().val; NoTokens fills the slot of a local that is
\* not assigned yet
NoTokens ==
  [accessToken |-> "", refreshToken |-> NoRefreshToken, expiresAt |-> 0,
   calendarId |-> "", calendarName |-> "", connectedAt |-> 0]

NoDoc == [exists |-> FALSE, val |-> NoTokens]

Slots == {"p1", "c1"}
Proxies == {"p1"}
Callbacks == {"c1"}

NoReq ==
  [method |-> "", action |-> "", body |-> "", gcalId |-> FALSE,
   code |-> FALSE, error |-> FALSE]

\* requests to api/calendar.js: req.method, req.query.action, req.body
\* ("undefined", "{}" an object without event, "{event}") and whether
\* req.query.gcalId is present
CalRequests ==
  { [NoReq EXCEPT !.method = "OPTIONS"],
    [NoReq EXCEPT !.method = "GET", !.action = "list"],
    [NoReq EXCEPT !.method = "GET", !.action = "status"],
    [NoReq EXCEPT !.method = "GET", !.action = "other"],
    [NoReq EXCEPT !.method = "POST", !.body = "undefined"],
    [NoReq EXCEPT !.method = "POST", !.body = "{}"],
    [NoReq EXCEPT !.method = "POST", !.body = "{event}"],
    [NoReq EXCEPT !.method = "DELETE"],
    [NoReq EXCEPT !.method = "DELETE", !.gcalId = TRUE],
    [NoReq EXCEPT !.method = "PUT"] }

\* requests to api/callback.js: whether req.query.code / req.query.error
\* are present
CbRequests ==
  { [NoReq EXCEPT !.method = "GET", !.code = c, !.error = e] :
      c \in BOOLEAN, e \in BOOLEAN }

NoResp == [status |-> 0, body |-> ""]

\* an invocation: its handler, position, request, locals, the external
\* requests it has issued so far (tokenCalls to the OAuth token endpoint,
\* apiCalls to the Calendar API, chatCalls to the chat provider, writes to
\* the store), and its response.  docExists, readNow and read are what the
\* store read returned and when; returned says that getValidToken returned
\* (tokens is then what it returned); reply is the token endpoint's answer;
\* stamp is the Date.now() that expiresAt was computed from; saved is the
\* TokenSet the invocation wrote
Idle ==
  [kind |-> "none", pc |-> "idle", req |-> NoReq,
   docExists |-> FALSE, readNow |-> 0, read |-> NoTokens,
   tokens |-> NoTokens, returned |-> FALSE,
   reply |-> "none", expiresIn |-> 0, stamp |-> 0, saved |-> NoTokens,
   tokenCalls |-> 0, apiCalls |-> 0, chatCalls |-> 0, writes |-> 0,
   resp |-> NoResp]

----------------------------------------------------------------------------
(* The providers' answers *)

NoReply ==
  [kind |-> "none", access_token |-> "", refresh_token |-> NoRefreshToken,
   expires_in |-> 0]

\* fetch rejects ("threw"), or the JSON answer carries an error field
FailedReplies ==
  { [NoReply EXCEPT !.kind = "threw"], [NoReply EXCEPT !.kind = "error"] }

\* answers of https://oauth2.googleapis.com/token to grant_type=refresh_token;
\* the provider grants nothing to a request without client id and secret
\* and it never mints the access token `old` a second time
RefreshReplies(old) ==
  FailedReplies \cup
  IF {"GOOGLE_CLIENT_ID", "GOOGLE_CLIENT_SECRET"} \subseteq env
  THEN { [NoReply EXCEPT !.kind = "ok", !.access_token = a, !.expires_in = e] :
           a \in AccessTokens \ {old}, e \in ExpiresIn }
  ELSE {}

\* answers of the token endpoint to grant_type=authorization_code; the
\* access token it mints is not the one already in the store
ExchangeReplies ==
  FailedReplies \cup
  IF {"GOOGLE_CLIENT_ID", "GOOGLE_CLIENT_SECRET", "GOOGLE_REDIRECT_URI"}
       \subseteq env
  THEN { [kind |-> "ok", access_token |-> a, refresh_token |-> r,
          expires_in |-> e] :
           a \in AccessTokens \ {store.val.accessToken}, r \in RefreshTokens \cup {NoRefreshToken},
           e \in ExpiresIn }
  ELSE {}

\* answers of the Calendar API to list / create / delete
ApiReplies == {"ok", "error", "threw"}

\* answers of calendarList: a calendar named 'Our Lovely Life' is among the
\* items ("target"), is not ("other"), or the fetch rejects
CalListReplies == {"target", "other", "threw"}

\* answers of the chat provider: its HTTP status, or 0 when fetch rejects
ChatReplies == {200, 400, 0}

----------------------------------------------------------------------------
(* api/calendar.js *)

Respond(s, status, body) ==
  [s EXCEPT !.pc = "done", !.resp = [status |-> status, body |-> body]]

\* the buffer comparison off by one: a token exactly 60 s from expiry counts
\* as expired
ExpiredInclusive(t, tokens) == t >= tokens.expiresAt - Buffer

\* calendar.js:32
Expired(t, tokens) == t > tokens.expiresAt - Buffer

\* the refresh-token guard dropped
MissingRefreshTokenUnchecked(tokens) == FALSE

\* calendar.js:33
MissingRefreshToken(tokens) == tokens.refreshToken = NoRefreshToken

\* calendar.js:47
RefreshRejected(reply) == reply.kind = "error"

\* the merge forgets the new expiry
MergeKeepsExpiry(tokens, reply, t) ==
  [tokens EXCEPT !.accessToken = reply.access_token]

\* calendar.js:49-53
MergeRefreshed(tokens, reply, t) ==
  [tokens EXCEPT !.accessToken = reply.access_token,
                 !.expiresAt = t + reply.expires_in * MsPerSec]

\* the event check dropped
MissingEventUnchecked(body) == FALSE

\* calendar.js:124
MissingEvent(body) == body # "{event}"

\* calendar.js:156
MissingGcalId(req) == ~req.gcalId

\* the catch block without its NOT_CONNECTED case
OnErrorAlways500(s, message) == Respond(s, 500, message)

\* calendar.js:179-185, the handler's catch block
OnError(s, message) ==
  IF message = "NOT_CONNECTED"
  THEN Respond(s, 200, "connected:false")
  ELSE Respond(s, 500, message)

\* calendar.js:71-177, the handler once getValidToken has returned s.tokens
Dispatch(s0) ==
  LET s == [s0 EXCEPT !.returned = TRUE]
      r == s.req
      callApi == [s EXCEPT !.pc = "calling", !.apiCalls = @ + 1]
  IN  IF r.method = "GET" /\ r.action = "list" THEN callApi
      ELSE IF r.method = "POST" THEN
        \* const { event } = req.body throws a TypeError on an undefined body
        IF r.body = "undefined" THEN OnError(s, "TypeError")
        ELSE IF MissingEvent(r.body) THEN Respond(s, 400, "Missing event")
        ELSE callApi
      ELSE IF r.method = "DELETE" THEN
        IF MissingGcalId(r) THEN Respond(s, 400, "Missing gcalId")
        ELSE callApi
      ELSE IF r.method = "GET" /\ r.action = "status"
        THEN Respond(s, 200, "connected:true")
      ELSE Respond(s, 400, "Unknown action")

\* calendar.js:62-70 and 24-26: CORS headers, the OPTIONS short cut, then
\* getValidToken up to its await of the store read
CalStart(p, r) ==
  /\ runs < MaxRuns
  /\ inv[p].pc \in {"idle", "done"}
  /\ LET s == [Idle EXCEPT !.kind = "calendar", !.req = r]
     IN  inv' = [inv EXCEPT ![p] =
                   IF r.method = "OPTIONS" THEN Respond(s, 200, "")
                   ELSE [s EXCEPT !.pc = "read"]]
  /\ runs' = runs + 1
  /\ UNCHANGED <<store, now, env, td>>

\* calendar.js:26-44: the store read completes; not connected, fresh token,
\* missing refresh token, or the refresh request goes out
CalRead(p) ==
  /\ inv[p].kind = "calendar" /\ inv[p].pc = "read"
  /\ LET s == [inv[p] EXCEPT !.docExists = store.exists, !.readNow = now,
                             !.read = store.val, !.tokens = store.val]
     IN  inv' = [inv EXCEPT ![p] =
                   IF ~store.exists THEN OnError(s, "NOT_CONNECTED")
                   ELSE IF Expired(now, s.tokens) THEN
                     IF MissingRefreshToken(s.tokens)
                     THEN OnError(s, "NO_REFRESH_TOKEN")
                     ELSE [s EXCEPT !.pc = "refreshing", !.tokenCalls = @ + 1]
                   ELSE Dispatch(s)]
  /\ UNCHANGED <<store, now, env, runs, td>>

\* calendar.js:46-56: the refresh answer arrives; on success the merged
\* TokenSet is computed and the store write goes out
CalRefreshReply(p, reply) ==
  /\ inv[p].kind = "calendar" /\ inv[p].pc = "refreshing"
  /\ LET s == [inv[p] EXCEPT !.reply = reply.kind]
     IN  inv' = [inv EXCEPT ![p] =
                   IF reply.kind = "threw" THEN OnError(s, "fetch failed")
                   ELSE IF RefreshRejected(reply)
                     THEN OnError(s, "REFRESH_FAILED")
                   ELSE [s EXCEPT !.tokens = MergeRefreshed(s.tokens, reply, now),
                                  !.expiresIn = reply.expires_in,
                                  !.stamp = now,
                                  !.pc = "saving"]]
  /\ UNCHANGED <<store, now, env, runs, td>>

\* calendar.js:56-59 and on: the store write takes effect, getValidToken
\* returns and the handler goes on
CalSave(p) ==
  /\ inv[p].kind = "calendar" /\ inv[p].pc = "saving"
  /\ store' = [exists |-> TRUE, val |-> inv[p].tokens]
  /\ inv' = [inv EXCEPT ![p] =
               Dispatch([inv[p] EXCEPT !.writes = @ + 1,
                                       !.saved = inv[p].tokens])]
  /\ UNCHANGED <<now, env, runs, td>>

\* calendar.js:89-90, 118 (list), 147-150 (create), 158-165 (delete)
ApiResponse(s, reply) ==
  IF reply = "threw" THEN OnError(s, "fetch failed")
  ELSE IF s.req.method = "DELETE" THEN Respond(s, 200, "ok")
  ELSE IF reply = "error" THEN Respond(s, 400, "provider error")
  ELSE IF s.req.method = "POST" THEN Respond(s, 200, "gcalId")
  ELSE Respond(s, 200, "events")

CalApiReply(p, reply) ==
  /\ inv[p].kind = "calendar" /\ inv[p].pc = "calling"
  /\ inv' = [inv EXCEPT ![p] = ApiResponse(inv[p], reply)]
  /\ UNCHANGED <<store, now, env, runs, td>>

----------------------------------------------------------------------------
(* api/callback.js *)

\* the exchange's error field ignored
ExchangeRejectedUnchecked(reply) == FALSE

\* callback.js:53
ExchangeRejected(reply) == reply.kind = "error"

\* the callback's response; its locals end with the invocation
CbRespond(s, status, body) ==
  Respond([s EXCEPT !.tokens = NoTokens, !.expiresIn = 0, !.stamp = 0,
                    !.saved = NoTokens],
          status, body)

\* callback.js:63-77, the TokenSet the callback stores
NewTokenSet(s, calList, t) ==
  [accessToken  |-> s.tokens.accessToken,
   refreshToken |-> s.tokens.refreshToken,
   expiresAt    |-> t + s.expiresIn * MsPerSec,
   calendarId   |-> IF calList = "target" THEN "cal_oll" ELSE "primary",
   calendarName |-> IF calList = "target" THEN "Our Lovely Life" ELSE "primary",
   connectedAt  |-> t]

\* callback.js:21-49: denied, missing code, or the code exchange goes out
CbStart(c, r) ==
  /\ runs < MaxRuns
  /\ inv[c].pc \in {"idle", "done"}
  /\ LET s == [Idle EXCEPT !.kind = "callback", !.req = r]
     IN  inv' = [inv EXCEPT ![c] =
                   IF r.error THEN CbRespond(s, 302, "?gcal=denied")
                   ELSE IF ~r.code THEN CbRespond(s, 400, "Missing code parameter")
                   ELSE [s EXCEPT !.pc = "exchanging", !.tokenCalls = @ + 1]]
  /\ runs' = runs + 1
  /\ UNCHANGED <<store, now, env, td>>

\* callback.js:51-61: the exchange answer arrives; on success the calendar
\* list request goes out
CbExchangeReply(c, reply) ==
  /\ inv[c].kind = "callback" /\ inv[c].pc = "exchanging"
  /\ LET s == [inv[c] EXCEPT !.reply = reply.kind]
     IN  inv' = [inv EXCEPT ![c] =
                   IF reply.kind = "threw" THEN CbRespond(s, 302, "?gcal=error")
                   ELSE IF ExchangeRejected(reply)
                     THEN CbRespond(s, 302, "?gcal=error")
                   ELSE [s EXCEPT !.tokens =
                                    [NoTokens EXCEPT
                                       !.accessToken = reply.access_token,
                                       !.refreshToken = reply.refresh_token],
                                  !.expiresIn = reply.expires_in,
                                  !.pc = "listing", !.apiCalls = @ + 1]]
  /\ UNCHANGED <<store, now, env, runs, td>>

\* callback.js:62-77: the calendar list arrives, the TokenSet is built and
\* the store write goes out
CbListReply(c, calList) ==
  /\ inv[c].kind = "callback" /\ inv[c].pc = "listing"
  /\ inv' = [inv EXCEPT ![c] =
               IF calList = "threw" THEN CbRespond(inv[c], 302, "?gcal=error")
               ELSE [inv[c] EXCEPT !.tokens = NewTokenSet(inv[c], calList, now),
                                   !.stamp = now,
                                   !.pc = "storing"]]
  /\ UNCHANGED <<store, now, env, runs, td>>

\* callback.js:68-80: the write takes effect (a full overwrite), then the
\* redirect
CbStore(c) ==
  /\ inv[c].kind = "callback" /\ inv[c].pc = "storing"
  /\ store' = [exists |-> TRUE, val |-> inv[c].tokens]
  /\ inv' = [inv EXCEPT ![c] =
               CbRespond([inv[c] EXCEPT !.writes = @ + 1], 302, "?gcal=connected")]
  /\ UNCHANGED <<now, env, runs, td>>

----------------------------------------------------------------------------
(* api/google.js: the OAuth redirector and the chat proxy *)

\* google.js:8
RedirectorMisconfigured ==
  "GOOGLE_CLIENT_ID" \notin env \/ "GOOGLE_REDIRECT_URI" \notin env

\* google.js:4-27
GoogleHandler(p) ==
  /\ runs < MaxRuns
  /\ inv[p].pc \in {"idle", "done"}
  /\ LET s == [Idle EXCEPT !.kind = "google", !.req = [NoReq EXCEPT !.method = "GET"]]
     IN  inv' = [inv EXCEPT ![p] =
                   IF RedirectorMisconfigured
                   THEN Respond(s, 500, "env vars not set")
                   ELSE Respond(s, 302, "consent")]
  /\ runs' = runs + 1
  /\ UNCHANGED <<store, now, env, td>>

\* google.js:33-55
ChatStart(p, method) ==
  /\ runs < MaxRuns
  /\ inv[p].pc \in {"idle", "done"}
  /\ LET s == [Idle EXCEPT !.kind = "chat", !.req = [NoReq EXCEPT !.method = method]]
     IN  inv' = [inv EXCEPT ![p] =
                   IF method # "POST" THEN Respond(s, 405, "Method not allowed")
                   ELSE IF "ANTHROPIC_API_KEY" \notin env
                     THEN Respond(s, 500, "env var not set")
                   ELSE [s EXCEPT !.pc = "forwarding", !.chatCalls = @ + 1]]
  /\ runs' = runs + 1
  /\ UNCHANGED <<store, now, env, td>>

\* google.js:57-62
ChatReply(p, status) ==
  /\ inv[p].kind = "chat" /\ inv[p].pc = "forwarding"
  /\ inv' = [inv EXCEPT ![p] =
               IF status = 0 THEN Respond(inv[p], 500, "fetch failed")
               ELSE Respond(inv[p], status, "relayed")]
  /\ UNCHANGED <<store, now, env, runs, td>>

----------------------------------------------------------------------------
(* api/calendar.js: toDateTime.  Strings are sequences of one-character    *)
(* strings; instants and local time values are minutes since 1970-01-01    *)
(* 00:00 (the seconds and milliseconds toDateTime produces are always 0).  *)

DigitChars == <<"0", "1", "2", "3", "4", "5", "6", "7", "8", "9">>

IsDigit(c) == \E i \in 1..10 : DigitChars[i] = c

DigitVal(c) == (CHOOSE i \in 1..10 : DigitChars[i] = c) - 1

\* the first index >= i of s that holds no digit (Len(s) + 1 when none)
RECURSIVE DigitsEnd(_, _)
DigitsEnd(s, i) ==
  IF i <= Len(s) /\ IsDigit(s[i]) THEN DigitsEnd(s, i + 1) ELSE i

\* \s* : the first index >= i of s that holds no white space
RECURSIVE SpaceEnd(_, _)
SpaceEnd(s, i) ==
  IF i <= Len(s) /\ s[i] \in {" ", "\t", "\n"} THEN SpaceEnd(s, i + 1) ELSE i

\* parseInt / Number of a run of decimal digits
RECURSIVE DecimalValue(_)
DecimalValue(ds) ==
  IF ds = <<>> THEN 0
  ELSE 10 * DecimalValue(SubSeq(ds, 1, Len(ds) - 1)) + DigitVal(ds[Len(ds)])

\* toUpperCase of the one letter that matters
Upper(c) ==
  CASE c = "a" -> "A" [] c = "p" -> "P" [] c = "m" -> "M" [] OTHER -> c

\* calendar.js:195, /(\d+):(\d+)\s*(AM|PM)/i tried at index i of s
MatchAt(s, i) ==
  LET e1 == DigitsEnd(s, i)
      e2 == DigitsEnd(s, e1 + 1)
      k  == SpaceEnd(s, e2)
  IN  IF /\ e1 > i
         /\ e1 <= Len(s) /\ s[e1] = ":"
         /\ e2 > e1 + 1
         /\ k + 1 <= Len(s)
         /\ Upper(s[k]) \in {"A", "P"}
         /\ Upper(s[k + 1]) = "M"
      THEN [ok |-> TRUE, h |-> SubSeq(s, i, e1 - 1),
            m |-> SubSeq(s, e1 + 1, e2 - 1), ap |-> SubSeq(s, k, k + 1)]
      ELSE [ok |-> FALSE, h |-> <<>>, m |-> <<>>, ap |-> <<>>]

\* calendar.js:195, String.prototype.match: the leftmost match, or null
TimeMatch(s) ==
  LET hits == {i \in 1..Len(s) : MatchAt(s, i).ok}
  IN  IF hits = {} THEN MatchAt(s, Len(s) + 1)
      ELSE MatchAt(s, CHOOSE i \in hits : \A j \in hits : i <= j)

\* calendar.js:192, dateStr.split('-')
RECURSIVE SplitDash(_)
SplitDash(s) ==
  LET cut == {i \in 1..Len(s) : s[i] = "-"}
  IN  IF cut = {} THEN <<s>>
      ELSE LET i == CHOOSE c \in cut : \A j \in cut : c <= j
           IN  <<SubSeq(s, 1, i - 1)>> \o SplitDash(SubSeq(s, i + 1, Len(s)))

\* days from 1970-01-01 to the first of month m (1..12) of year y plus d - 1
\* (the proleptic Gregorian calendar)
DaysFromCivil(y, m, d) ==
  LET yy  == IF m <= 2 THEN y - 1 ELSE y
      era == yy \div 400
      yoe == yy - era * 400
      mp  == IF m > 2 THEN m - 3 ELSE m + 9
      doy == (153 * mp + 2) \div 5 + d - 1
      doe == yoe * 365 + yoe \div 4 - yoe \div 100 + doy
  IN  era * 146097 + doe - 719468

\* the calendar date of day z: <<year, month 1..12, day>>
CivilFromDays(z) ==
  LET zz  == z + 719468
      era == zz \div 146097
      doe == zz - era * 146097
      yoe == (doe - doe \div 1460 + doe \div 36524 - doe \div 146096) \div 365
      doy == doe - (365 * yoe + yoe \div 4 - yoe \div 100)
      mp  == (5 * doy + 2) \div 153
      d   == doy - (153 * mp + 2) \div 5 + 1
      m   == IF mp < 10 THEN mp + 3 ELSE mp - 9
      y   == yoe + era * 400
  IN  <<IF m <= 2 THEN y + 1 ELSE y, m, d>>

\* calendar.js:203, the Date constructor's MakeDay: month0 and date may lie
\* outside their ranges and roll over
MakeDay(year, month0, date) ==
  DaysFromCivil(year + month0 \div 12, (month0 % 12) + 1, 1) + date - 1

\* calendar.js:203, MakeDate(MakeDay, MakeTime): the local time value
MakeLocal(year, month0, date, hour, minute) ==
  MakeDay(year, month0, date) * 1440 + hour * 60 + minute

\* 0 = Sunday; 1970-01-01 was a Thursday
WeekDay(day) == (day + 4) % 7

FirstSundayFrom(day) == day + ((7 - WeekDay(day)) % 7)

\* America/Chicago: daylight time starts at 02:00 local on the second Sunday
\* of March and ends at 02:00 local on the first Sunday of November
ChicagoSpring(y) == FirstSundayFrom(DaysFromCivil(y, 3, 8)) * 1440 + 120
ChicagoFall(y) == FirstSundayFrom(DaysFromCivil(y, 11, 1)) * 1440 + 120

\* calendar.js:203, the Date constructor's UTC(t): the instant of local time
\* value t in the host's time zone.  A local time that is skipped or
\* repeated at a transition is read with the offset before the transition
\* (ECMAScript, LocalTime/UTC).
LocalToUtc(zone, t) ==
  IF zone = "America/Chicago"
  THEN LET y == CivilFromDays(t \div 1440)[1]
       IN  IF t >= ChicagoSpring(y) + 60 /\ t < ChicagoFall(y)
           THEN t + 300
           ELSE t + 360
  ELSE t

Pad(n, width) ==
  [i \in 1..width |-> DigitChars[((n \div (10 ^ (width - i))) % 10) + 1]]

\* calendar.js:204, Date.prototype.toISOString of instant t
ToISOString(t) ==
  LET ymd == CivilFromDays(t \div 1440)
      hm  == t % 1440
  IN  Pad(ymd[1], 4) \o <<"-">> \o Pad(ymd[2], 2) \o <<"-">> \o Pad(ymd[3], 2)
      \o <<"T">> \o Pad(hm \div 60, 2) \o <<":">> \o Pad(hm % 60, 2)
      \o <<":", "0", "0", ".", "0", "0", "0", "Z">>

\* calendar.js:199-200, the 12-hour to 24-hour conversion
To24Hour(hour, ap) ==
  LET pm == Upper(ap[1]) = "P"
  IN  IF pm /\ hour # 12 THEN hour + 12
      ELSE IF ~pm /\ hour = 12 THEN 0
      ELSE hour

\* calendar.js:191-205; hasTime = FALSE is an undefined timeStr, and an
\* empty timeStr is falsy as well
toDateTime(zone, dateStr, hasTime, timeStr, durationMins) ==
  LET ymd   == SplitDash(dateStr)
      y     == DecimalValue(ymd[1])
      m     == DecimalValue(ymd[2])
      d     == DecimalValue(ymd[3])
      match == IF hasTime /\ timeStr # <<>> THEN TimeMatch(timeStr)
               ELSE MatchAt(<<>>, 1)
      hour  == IF match.ok THEN To24Hour(DecimalValue(match.h), match.ap) ELSE 0
      min   == IF match.ok THEN DecimalValue(match.m) ELSE 0
  IN  ToISOString(LocalToUtc(zone, MakeLocal(y, m - 1, d, hour, min + durationMins)))

----------------------------------------------------------------------------
(* Time and the specifications *)

\* Date.now() advances between any two steps
Advance ==
  /\ now + Tick <= MaxNow
  /\ now' = now + Tick
  /\ UNCHANGED <<store, env, inv, runs, td>>

\* no toDateTime call under way
NoGiven ==
  [y |-> 1970, m |-> 1, d |-> 1, form |-> "undefined", h |-> 12, mm |-> 0,
   pm |-> FALSE]

NoTd ==
  [phase |-> "off", zone |-> "UTC", given |-> NoGiven, dateStr |-> <<>>,
   hasTime |-> FALSE, timeStr |-> <<>>, durationMins |-> 0, out |-> <<>>]

\* the store starts empty: the document is created by the first callback
Init ==
  /\ store = NoDoc
  /\ now = 0
  /\ env = ConfigKeys
  /\ inv = [p \in Slots |-> Idle]
  /\ runs = 0
  /\ td = NoTd

Next ==
  \/ \E p \in Proxies :
       \/ \E r \in CalRequests : CalStart(p, r)
       \/ CalRead(p)
       \/ \E reply \in RefreshReplies(inv[p].tokens.accessToken) :
            CalRefreshReply(p, reply)
       \/ CalSave(p)
       \/ \E reply \in ApiReplies : CalApiReply(p, reply)
  \/ \E c \in Callbacks :
       \/ \E r \in CbRequests : CbStart(c, r)
       \/ \E reply \in ExchangeReplies : CbExchangeReply(c, reply)
       \/ \E calList \in CalListReplies : CbListReply(c, calList)
       \/ CbStore(c)
  \/ Advance

Spec == Init /\ [][Next]_vars

----------------------------------------------------------------------------
(* The four handlers one after the other, under every configuration *)

InitConfig ==
  /\ store = NoDoc
  /\ now = 0
  /\ env \in SUBSET ConfigKeys
  /\ inv = [p \in Slots |-> Idle]
  /\ runs = 0
  /\ td = NoTd

NextConfig ==
  \/ \E p \in Proxies :
       \/ \E r \in CalRequests : CalStart(p, r)
       \/ CalRead(p)
       \/ \E reply \in RefreshReplies(inv[p].tokens.accessToken) :
            CalRefreshReply(p, reply)
       \/ CalSave(p)
       \/ \E reply \in ApiReplies : CalApiReply(p, reply)
       \/ \E r \in CbRequests : CbStart(p, r)
       \/ \E reply \in ExchangeReplies : CbExchangeReply(p, reply)
       \/ \E calList \in CalListReplies : CbListReply(p, calList)
       \/ CbStore(p)
       \/ GoogleHandler(p)
       \/ \E method \in {"GET", "POST"} : ChatStart(p, method)
       \/ \E status \in ChatReplies : ChatReply(p, status)
  \/ Advance

SpecConfig == InitConfig /\ [][NextConfig]_vars

----------------------------------------------------------------------------
(* toDateTime on its own *)

\* the dates, 12-hour times and durations toDateTime is called with
Dates ==
  { <<2025, 3, 15>>, <<2025, 3, 9>>, <<2025, 11, 2>>, <<2025, 12, 31>>,
    <<2024, 2, 28>>, <<2025, 1, 31>> }
Hours == 1..12
Minutes == {0, 1, 30, 59}
Durations == {0, 60}
Zones == {"UTC", "America/Chicago"}
\* how the time is written: "h:mm AM", "h:mmam", not at all (undefined),
\* as the empty string, or as a word the pattern does not match
Forms == {"h:mm AP", "h:mmap", "undefined", "empty", "noon"}

DateStr(y, m, d) == Pad(y, 4) \o <<"-">> \o Pad(m, 2) \o <<"-">> \o Pad(d, 2)

TimeStr(g) ==
  LET hh == IF g.h >= 10 THEN Pad(g.h, 2) ELSE Pad(g.h, 1)
  IN  CASE g.form = "h:mm AP" ->
             hh \o <<":">> \o Pad(g.mm, 2) \o <<" ", IF g.pm THEN "P" ELSE "A", "M">>
        [] g.form = "h:mmap" ->
             hh \o <<":">> \o Pad(g.mm, 2) \o <<IF g.pm THEN "p" ELSE "a", "m">>
        [] g.form = "noon" -> <<"n", "o", "o", "n">>
        [] OTHER -> <<>>

Givens ==
  { [y |-> date[1], m |-> date[2], d |-> date[3], form |-> f, h |-> h,
     mm |-> mm, pm |-> pm] :
      date \in Dates, f \in {"h:mm AP", "h:mmap"}, h \in Hours,
      mm \in Minutes, pm \in BOOLEAN }
  \cup
  { [NoGiven EXCEPT !.y = date[1], !.m = date[2], !.d = date[3], !.form = f] :
      date \in Dates, f \in {"undefined", "empty", "noon"} }

InitTime ==
  /\ store = NoDoc
  /\ now = 0
  /\ env = ConfigKeys
  /\ inv = [p \in Slots |-> Idle]
  /\ runs = 0
  /\ td \in { [phase |-> "input", zone |-> z, given |-> g,
                dateStr |-> DateStr(g.y, g.m, g.d),
                hasTime |-> g.form # "undefined", timeStr |-> TimeStr(g),
                durationMins |-> dur, out |-> <<>>] :
                z \in Zones, g \in Givens, dur \in Durations }

\* calendar.js:131 and 134, a call of toDateTime
ToDateTimeCall ==
  /\ td.phase = "input"
  /\ td' = [td EXCEPT !.phase = "output",
                       !.out = toDateTime(td.zone, td.dateStr, td.hasTime,
                                          td.timeStr, td.durationMins)]
  /\ UNCHANGED <<store, now, env, inv, runs>>

NextTime == ToDateTimeCall

SpecTime == InitTime /\ [][NextTime]_vars

----------------------------------------------------------------------------
(* Properties of the Token Refresher (getValidToken) *)

CalendarRuns == {p \in Slots : inv[p].kind = "calendar"}
CallbackRuns == {c \in Slots : inv[c].kind = "callback"}

\* the store read found a TokenSet that is still fresh / already expired
FoundFresh(s) == s.docExists /\ s.readNow <= s.read.expiresAt - 60000
FoundExpired(s) == s.docExists /\ s.readNow > s.read.expiresAt - 60000

\* C1: an invocation that read a TokenSet with now <= expiresAt - 60000 gets
\* exactly the stored fields back from getValidToken, has issued no request
\* to the token endpoint and has written nothing to the store.
C1_FreshTokenUntouched ==
  \A p \in CalendarRuns :
    FoundFresh(inv[p]) =>
      /\ inv[p].returned
      /\ inv[p].tokens = inv[p].read
      /\ inv[p].tokenCalls = 0
      /\ inv[p].writes = 0

\* a finished invocation that read a TokenSet exactly 60 s before its expiry
C1_Witness ==
  \E p \in CalendarRuns :
    /\ inv[p].pc = "done"
    /\ inv[p].docExists
    /\ inv[p].readNow = inv[p].read.expiresAt - 60000
    /\ inv[p].returned

\* C2 as stated: every finished invocation that read an expired TokenSet
\* with a refresh token has issued exactly one refresh call and written
\* exactly one TokenSet.
C2_Original ==
  \A p \in CalendarRuns :
    (inv[p].pc = "done" /\ FoundExpired(inv[p])
       /\ inv[p].read.refreshToken # NoRefreshToken) =>
      inv[p].tokenCalls = 1 /\ inv[p].writes = 1

\* C2 amended: an invocation that read an expired TokenSet with a refresh
\* token issues exactly one refresh call.  When the answer carries no error
\* it writes exactly one TokenSet, the one it read with accessToken replaced
\* and expiresAt = (time of the answer) + expires_in * 1000, and returns it.
\* When the answer carries an error, or the request fails, it writes nothing
\* and the handler answers 500.
C2_RefreshOncePersistOnSuccess ==
  \A p \in CalendarRuns :
    (FoundExpired(inv[p]) /\ inv[p].read.refreshToken # NoRefreshToken) =>
      LET s == inv[p] IN
      /\ s.tokenCalls = 1
      /\ s.pc \in {"refreshing", "saving"} => s.writes = 0
      /\ (s.reply = "ok" /\ s.pc \notin {"refreshing", "saving"}) =>
           /\ s.writes = 1
           /\ s.returned
           /\ s.tokens = s.saved
           /\ s.saved = [s.read EXCEPT
                           !.accessToken = s.saved.accessToken,
                           !.expiresAt = s.stamp + s.expiresIn * 1000]
           /\ s.saved.accessToken # s.read.accessToken
           /\ s.expiresIn \in ExpiresIn
           /\ s.stamp >= s.readNow
      /\ s.reply \in {"error", "threw"} =>
           /\ s.writes = 0
           /\ ~s.returned
           /\ s.pc = "done"
           /\ s.resp.status = 500

\* a finished invocation that refreshed and saved, with a later expiry
C2_Witness ==
  \E p \in CalendarRuns :
    /\ inv[p].pc = "done"
    /\ FoundExpired(inv[p])
    /\ inv[p].reply = "ok"
    /\ inv[p].writes = 1
    /\ inv[p].saved.expiresAt > inv[p].read.expiresAt

\* C3: an invocation that read an expired TokenSet without refresh token
\* fails with NO_REFRESH_TOKEN (the handler answers 500), having issued no
\* refresh call and written nothing.
C3_NoRefreshTokenFails ==
  \A p \in CalendarRuns :
    (FoundExpired(inv[p]) /\ inv[p].read.refreshToken = NoRefreshToken) =>
      /\ inv[p].pc = "done"
      /\ inv[p].resp = [status |-> 500, body |-> "NO_REFRESH_TOKEN"]
      /\ ~inv[p].returned
      /\ inv[p].tokenCalls = 0
      /\ inv[p].writes = 0

C3_Witness ==
  \E p \in CalendarRuns :
    /\ inv[p].pc = "done"
    /\ FoundExpired(inv[p])
    /\ inv[p].read.refreshToken = NoRefreshToken
    /\ inv[p].resp.body = "NO_REFRESH_TOKEN"

----------------------------------------------------------------------------
(* Properties of the Calendar Proxy's handler *)

\* a Create request without event object, or a Delete request without gcalId
Invalid(r) ==
  \/ r.method = "POST" /\ r.body # "{event}"
  \/ r.method = "DELETE" /\ ~r.gcalId

NeedsToken(r) ==
  \/ r.method = "GET" /\ r.action = "list"
  \/ r.method = "POST"
  \/ r.method = "DELETE"

\* C6: with no TokenSet in the store, a status check is answered 200
\* connected:false, and a list, create or delete request is answered with an
\* error status, not with the 200 disconnected status.
C6_NotConnectedFailsOperations ==
  \A p \in CalendarRuns :
    (inv[p].pc = "done" /\ inv[p].req.method # "OPTIONS" /\ ~inv[p].docExists) =>
      /\ (inv[p].req.method = "GET" /\ inv[p].req.action = "status") =>
           inv[p].resp = [status |-> 200, body |-> "connected:false"]
      /\ NeedsToken(inv[p].req) => inv[p].resp.status >= 400

\* C8: with no TokenSet in the store, GET action=status is answered 200
\* connected:false, and the invocation has written nothing to the store and
\* called no provider.
C8_StatusDisconnected ==
  \A p \in CalendarRuns :
    (inv[p].pc = "done" /\ ~inv[p].docExists
       /\ inv[p].req.method = "GET" /\ inv[p].req.action = "status") =>
      /\ inv[p].resp = [status |-> 200, body |-> "connected:false"]
      /\ inv[p].writes = 0
      /\ inv[p].tokenCalls = 0
      /\ inv[p].apiCalls = 0
      /\ inv[p].chatCalls = 0

C8_Witness ==
  \E p \in CalendarRuns :
    /\ inv[p].pc = "done"
    /\ ~store.exists /\ ~inv[p].docExists
    /\ inv[p].req.method = "GET" /\ inv[p].req.action = "status"
    /\ inv[p].resp.status = 200

----------------------------------------------------------------------------
(* Properties of the OAuth Callback and of the shared document *)

\* C7: a callback invocation writes to the store only after an exchange
\* answer without error field, for a request with a code and no error
\* parameter; the denied redirect, the 400 for a missing code and the error
\* redirect after a rejected exchange come with no write.
C7_CallbackWritesOnlyAfterExchange ==
  \A c \in CallbackRuns :
    LET s == inv[c] IN
    /\ s.writes > 0 =>
         s.reply = "ok" /\ s.req.code /\ ~s.req.error /\ s.writes = 1
    /\ (s.pc = "done" /\ s.resp.body = "?gcal=denied") =>
         s.req.error /\ s.resp.status = 302 /\ s.writes = 0 /\ s.tokenCalls = 0
    /\ (s.pc = "done" /\ s.resp.body = "Missing code parameter") =>
         ~s.req.code /\ s.resp.status = 400 /\ s.writes = 0 /\ s.tokenCalls = 0
    /\ s.reply = "error" =>
         /\ s.pc = "done"
         /\ s.resp = [status |-> 302, body |-> "?gcal=error"]
         /\ s.writes = 0
    /\ s.req.error => s.pc = "done" /\ s.resp.body = "?gcal=denied"
    /\ (~s.req.error /\ ~s.req.code) =>
         s.pc = "done" /\ s.resp.body = "Missing code parameter"
    /\ (s.pc = "done" /\ s.resp.body = "?gcal=connected") => s.writes = 1

\* all four outcomes have happened to the same store: a rejected exchange
\* after a successful connect leaves the document as it was
C7_Witness ==
  \E c \in CallbackRuns :
    /\ inv[c].pc = "done"
    /\ inv[c].reply = "error"
    /\ inv[c].resp.body = "?gcal=error"
    /\ store.exists

\* C10: a store write of the Token Refresher changes only accessToken and
\* expiresAt of the TokenSet that is in the store right before the write.
C10_RefreshWriteKeepsOtherFields ==
  [][ \A p \in Slots :
        (inv[p].kind = "calendar" /\ inv'[p].kind = "calendar"
           /\ inv'[p].writes = inv[p].writes + 1) =>
          /\ store.exists
          /\ store'.val.refreshToken = store.val.refreshToken
          /\ store'.val.calendarId = store.val.calendarId
          /\ store'.val.calendarName = store.val.calendarName
          /\ store'.val.connectedAt = store.val.connectedAt ]_vars

----------------------------------------------------------------------------
(* Configuration *)

\* the configuration values a handler sends or checks
Required(kind) ==
  CASE kind = "google" -> {"GOOGLE_CLIENT_ID", "GOOGLE_REDIRECT_URI"}
    [] kind = "callback" ->
         {"GOOGLE_CLIENT_ID", "GOOGLE_CLIENT_SECRET", "GOOGLE_REDIRECT_URI"}
    [] kind = "calendar" -> {"GOOGLE_CLIENT_ID", "GOOGLE_CLIENT_SECRET"}
    [] kind = "chat" -> {"ANTHROPIC_API_KEY"}
    [] OTHER -> {}

\* the invocation has come to the place where its handler uses the values
UsesConfig(s) ==
  CASE s.kind = "google" -> TRUE
    [] s.kind = "chat" -> s.req.method = "POST"
    [] s.kind = "callback" -> s.req.code /\ ~s.req.error
    [] s.kind = "calendar" ->
         FoundExpired(s) /\ s.read.refreshToken # NoRefreshToken
    [] OTHER -> FALSE

\* C5: an invocation that needs a configuration value that is missing
\* attempts no OAuth, Calendar, chat or store-write request and is answered
\* with an error.
C5_MissingConfigNoExternalCall ==
  \A p \in Slots :
    (UsesConfig(inv[p]) /\ ~(Required(inv[p].kind) \subseteq env)) =>
      /\ inv[p].tokenCalls = 0
      /\ inv[p].apiCalls = 0
      /\ inv[p].chatCalls = 0
      /\ inv[p].writes = 0
      /\ inv[p].pc = "done"
      /\ inv[p].resp.status >= 400

----------------------------------------------------------------------------
(* toDateTime *)

\* what the claim says of a finished call: the instant of the date's h:mm
\* (hour h mod 12, plus 12 for PM; 00:00 without a time) in the host's zone,
\* advanced by durationMins minutes
ClaimedInstant(t) ==
  LET g     == t.given
      timed == g.form \in {"h:mm AP", "h:mmap"}
      hour  == IF timed THEN (g.h % 12) + (IF g.pm THEN 12 ELSE 0) ELSE 0
      min   == IF timed THEN g.mm ELSE 0
  IN  LocalToUtc(t.zone, DaysFromCivil(g.y, g.m, g.d) * 1440 + hour * 60 + min)
        + t.durationMins

\* C9: toDateTime yields the local instant of the date's 12-hour time (12 AM
\* is hour 0, 12 PM is hour 12, no time is 00:00) advanced by exactly
\* durationMins minutes.
C9_ToDateTimeExactAdvance ==
  (td.phase = "output" /\ td.given.form # "noon") =>
    td.out = ToISOString(ClaimedInstant(td))

\* the same on a host whose zone has no offset transitions
C9_OnFixedOffsetHost ==
  (td.phase = "output" /\ td.given.form # "noon" /\ td.zone = "UTC") =>
    td.out = ToISOString(ClaimedInstant(td))

====
